---------------------------- MODULE Spec2Model ----------------------------
(***************************************************************************)
(* Marble Maze Builder: the race hook (useRaceLogic), the App controller  *)
(* commands and the RaceBoard editor, as a state machine.                 *)
(*                                                                         *)
(* Numbers.  Racer, particle and camera quantities are fixed-point        *)
(* integers in 1/100 of a course unit (x = 11250 is 112.5); wall          *)
(* endpoints are whole course units.  A floating-point product or         *)
(* quotient is rounded to the nearest 1/100 (RDiv).                        *)
(*                                                                         *)
(* Scheduling.  A setState call is queued and applied, in call order, by  *)
(* the next render.  A discrete input event (click, mouse, touch) runs    *)
(* its handler, the render and the effects of that render in one step.    *)
(* A requestAnimationFrame or setTimeout callback only queues; the        *)
(* render and then its effects follow as later steps (Render, Effects),   *)
(* and effects still waiting are always run before the next render.       *)
(*                                                                         *)
(* Indices are 1-based; 0 stands for null (hoveredWallIndex,              *)
(* animationFrameRef).  touchCount = NoCount stands for an absent field.  *)
(***************************************************************************)
EXTENDS Integers, Sequences, FiniteSets, TLC

\* ------------------------------------------------------------------------
\* Physics and board constants (hooks/useRaceLogic.ts)
\* ------------------------------------------------------------------------
LEVEL_WIDTH == 45000
GRAVITY == 10
RESTITUTION == 70
RACER_RADIUS == 2000
MAX_SPEED == 1500
VIEWPORT_HEIGHT == 80000
ERASE_THRESHOLD == 1500
PARTICLE_GRAVITY == 5
EPSILON == 1
CAMERA_SMOOTHING == 8
START_Y == 3000
MIN_LIFESPAN == 40
DEFAULT_LEVEL_HEIGHT == 800

NoCount == -1
Null == [null |-> TRUE]

\* ------------------------------------------------------------------------
\* Bounds of the model
\* ------------------------------------------------------------------------
MaxWalls == 1
MaxHeldTicks == 1
MaxFrames == 2
MaxStrayTicks == 1

\* Inputs: pointer positions (press, move), Math.random() samples
DownPoints == { [x |-> 60, y |-> 100] }
Points == { [x |-> 60, y |-> 100], [x |-> 240, y |-> 100] }
VxSamples == { <<-99, 0, 60>> }
Rnds == { [count |-> 8, seed |-> 0], [count |-> 12, seed |-> 13] }
GeneratedMazes ==
  { << [x1 |-> 300, y1 |-> 200, x2 |-> 380, y2 |-> 200,
        shapeType |-> "platforms", touchCount |-> NoCount] >> }

\* ------------------------------------------------------------------------
\* Arithmetic
\* ------------------------------------------------------------------------
Abs(a) == IF a < 0 THEN -a ELSE a
Min(a, b) == IF a < b THEN a ELSE b
Max(a, b) == IF a > b THEN a ELSE b

\* a / b rounded to the nearest integer (b > 0)
RDiv(a, b) == (2 * a + b) \div (2 * b)

RECURSIVE SqrtSearch(_, _, _)
SqrtSearch(n, lo, hi) ==
  IF lo >= hi THEN lo
  ELSE LET mid == (lo + hi + 1) \div 2
       IN  IF mid * mid <= n THEN SqrtSearch(n, mid, hi)
                             ELSE SqrtSearch(n, lo, mid - 1)

\* Math.sqrt, rounded down to the fixed-point grid
Sqrt(n) == SqrtSearch(n, 0, 46340)


\* ------------------------------------------------------------------------
\* Data (types.ts)
\* ------------------------------------------------------------------------
RacerIds == <<"circle", "square", "triangle">>

Wall(x1, y1, x2, y2) ==
  [x1 |-> x1, y1 |-> y1, x2 |-> x2, y2 |-> y2,
   shapeType |-> "none", touchCount |-> NoCount]

\* wall.touchCount || 0
Count(wall) == IF wall.touchCount = NoCount THEN 0 ELSE wall.touchCount

StripToZero(ws) == [i \in DOMAIN ws |-> [ws[i] EXCEPT !.touchCount = 0]]

\* ({ touchCount, ...rest }) => rest
StripTouchCount(ws) == [i \in DOMAIN ws |-> [ws[i] EXCEPT !.touchCount = NoCount]]

createInitialRacers(vxs) ==
  [i \in 1..3 |->
     [id |-> RacerIds[i], x |-> (LEVEL_WIDTH * 25 * i) \div 100, y |-> START_Y,
      vx |-> vxs[i], vy |-> 0, radius |-> RACER_RADIUS]]

\* ------------------------------------------------------------------------
\* Geometry: closest point of a segment, circle-segment overlap
\* ------------------------------------------------------------------------
LineLenSqNeverZero(wall) ==
  IF wall.x1 = wall.x2 /\ wall.y1 = wall.y2 THEN 1
  ELSE (wall.x2 - wall.x1) * (wall.x2 - wall.x1) + (wall.y2 - wall.y1) * (wall.y2 - wall.y1)

LineLenSq(wall) ==
  (wall.x2 - wall.x1) * (wall.x2 - wall.x1) + (wall.y2 - wall.y1) * (wall.y2 - wall.y1)

\* t = clamp(((px - x1) * lineX + (py - y1) * lineY) / lineLenSq, 0, 1),
\* kept as the numerator over lineLenSq * 100
ClampedT(px, py, wall) ==
  Max(0, Min(LineLenSq(wall) * 100,
             (px - wall.x1 * 100) * (wall.x2 - wall.x1)
               + (py - wall.y1 * 100) * (wall.y2 - wall.y1)))

ClosestPoint(px, py, wall) ==
  [x |-> wall.x1 * 100 + RDiv(ClampedT(px, py, wall) * (wall.x2 - wall.x1), LineLenSq(wall)),
   y |-> wall.y1 * 100 + RDiv(ClampedT(px, py, wall) * (wall.y2 - wall.y1), LineLenSq(wall))]

\* dx * dx + dy * dy < limit * limit (the squares are only taken when both
\* legs are shorter than limit, which keeps them in the integer range)
WithinDistance(dx, dy, limit) ==
  /\ Abs(dx) < limit
  /\ Abs(dy) < limit
  /\ dx * dx + dy * dy < limit * limit

\* ------------------------------------------------------------------------
\* updateRace: one racer against one wall (lines 162-225).
\* s = [x, y, vx, vy, hits, sounds]; hits is wallHitMap.
\* ------------------------------------------------------------------------
HitValueAccumulating(hits, index, wall) ==
  IF index \in DOMAIN hits THEN hits[index] + 1 ELSE Count(wall) + 1

HitValueTwice(hits, index, wall) == Count(wall) + 2

\* wallHitMap.set(index, currentTouchCount + 1)
HitValue(hits, index, wall) == Count(wall) + 1

RecordHit(hits, index, wall) ==
  (index :> HitValue(hits, index, wall)) @@ hits

ImpactSounds(velDotNormal, currentTouchCount, index) ==
  IF Abs(velDotNormal) > 100
  THEN IF currentTouchCount = 0 THEN {[kind |-> "bounce", wall |-> index]}
       ELSE IF currentTouchCount = 1 THEN {[kind |-> "break", wall |-> index]}
       ELSE {}
  ELSE {}

ReflectElastic(s, dx, dy, distance, currentTouchCount, index) ==
  LET dot == s.vx * dx + s.vy * dy
      velDotNormal == RDiv(dot, distance)
  IN  IF dot < 0
      THEN [s EXCEPT
              !.vx = s.vx - RDiv(2 * velDotNormal * dx, distance),
              !.vy = s.vy - RDiv(2 * velDotNormal * dy, distance),
              !.sounds = @ \cup ImpactSounds(velDotNormal, currentTouchCount, index)]
      ELSE s

Reflect(s, dx, dy, distance, currentTouchCount, index) ==
  LET dot == s.vx * dx + s.vy * dy
      velDotNormal == RDiv(dot, distance)
      tangentVx == s.vx - RDiv(velDotNormal * dx, distance)
      tangentVy == s.vy - RDiv(velDotNormal * dy, distance)
      newNormalVelocityMagnitude == RDiv(-velDotNormal * RESTITUTION, 100)
  IN  IF dot < 0
      THEN [s EXCEPT
              !.vx = tangentVx + RDiv(newNormalVelocityMagnitude * dx, distance),
              !.vy = tangentVy + RDiv(newNormalVelocityMagnitude * dy, distance),
              !.sounds = @ \cup ImpactSounds(velDotNormal, currentTouchCount, index)]
      ELSE s

CollideWall(s, wall, index, radius) ==
  LET closest == ClosestPoint(s.x, s.y, wall)
      dx == s.x - closest.x
      dy == s.y - closest.y
      distance == Sqrt(dx * dx + dy * dy)
      overlap == radius - distance
      hit == [s EXCEPT !.hits = RecordHit(s.hits, index, wall)]
  IN  IF Count(wall) >= 2 THEN s
      ELSE IF LineLenSq(wall) = 0 THEN s
      ELSE IF ~WithinDistance(dx, dy, radius) THEN s
      ELSE IF distance = 0
      THEN [hit EXCEPT !.x = @ + (wall.y2 - wall.y1),
                       !.y = @ + (wall.x1 - wall.x2)]
      ELSE Reflect([hit EXCEPT !.x = @ + RDiv(dx * (overlap + EPSILON), distance),
                               !.y = @ + RDiv(dy * (overlap + EPSILON), distance)],
                   dx, dy, distance, Count(wall), index)

RECURSIVE CollideWalls(_, _, _, _)
CollideWalls(s, ws, index, radius) ==
  IF index > Len(ws) THEN s
  ELSE CollideWalls(CollideWall(s, ws[index], index, radius), ws, index + 1, radius)

\* ------------------------------------------------------------------------
\* updateRace: one racer (lines 142-240)
\* ------------------------------------------------------------------------
EdgeSounds(vx) == IF Abs(vx) > 50 THEN {[kind |-> "bounce", wall |-> 0]} ELSE {}

CollideEdges(s, radius) ==
  IF s.x - radius < 0 \/ s.x + radius > LEVEL_WIDTH
  THEN [s EXCEPT !.vx = RDiv(-RESTITUTION * s.vx, 100),
                 !.x = IF s.x - radius < 0 THEN radius ELSE LEVEL_WIDTH - radius,
                 !.sounds = @ \cup EdgeSounds(s.vx)]
  ELSE s

CapSpeedOff(s) == s

\* lines 227-232
CapSpeed(s) ==
  LET speed == Sqrt(s.vx * s.vx + s.vy * s.vy)
  IN  IF s.vx * s.vx + s.vy * s.vy > MAX_SPEED * MAX_SPEED
      THEN [s EXCEPT !.vx = RDiv(s.vx * MAX_SPEED, speed),
                     !.vy = RDiv(s.vy * MAX_SPEED, speed)]
      ELSE s

\* gravity, position update, board edges, walls, speed cap
MoveRacer(racer, ws, hits, sounds) ==
  CapSpeed(
    CollideWalls(
      CollideEdges([x |-> racer.x + racer.vx,
                    y |-> racer.y + racer.vy + GRAVITY,
                    vx |-> racer.vx,
                    vy |-> racer.vy + GRAVITY,
                    hits |-> hits, sounds |-> sounds],
                   racer.radius),
      ws, 1, racer.radius))

\* setWinner(racer): the value queued last is the one the render keeps
SetWinner(current, racer) == racer

\* racers.map(...): acc = [racers, hits, sounds, winner]; setWinner is called
\* for every racer past the finish while the snapshot shows no winner
RECURSIVE MoveRacers(_, _, _, _)
MoveRacers(acc, ref, lh, i) ==
  IF i > Len(ref.racers) THEN acc
  ELSE LET racer == ref.racers[i]
           s == MoveRacer(racer, ref.walls, acc.hits, acc.sounds)
       IN  MoveRacers(
             [racers |-> Append(acc.racers,
                                [racer EXCEPT !.x = s.x, !.y = s.y, !.vx = s.vx, !.vy = s.vy]),
              hits |-> s.hits,
              sounds |-> s.sounds,
              winner |-> IF s.y > lh * 100 /\ ref.winner = Null
                         THEN SetWinner(acc.winner, racer) ELSE acc.winner],
             ref, lh, i + 1)

ApplyHitsRemoving(ws, hits) ==
  SelectSeq([i \in DOMAIN ws |->
               IF i \in DOMAIN hits THEN [ws[i] EXCEPT !.touchCount = hits[i]] ELSE ws[i]],
            LAMBDA wall : wall.touchCount # 2)

\* prevWalls.map((wall, index) => wallHitMap.has(index) ? {...wall, touchCount} : wall)
ApplyHits(ws, hits) ==
  [i \in DOMAIN ws |->
     IF i \in DOMAIN hits THEN [ws[i] EXCEPT !.touchCount = hits[i]] ELSE ws[i]]

\* particle update (lines 125-137)
StepParticle(p) ==
  [p EXCEPT !.x = p.x + p.vx, !.y = p.y + p.vy,
            !.vy = p.vy + PARTICLE_GRAVITY, !.lifespan = p.lifespan - 1]

UpdateParticles(ps) ==
  SelectSeq([i \in DOMAIN ps |-> StepParticle(ps[i])], LAMBDA p : p.lifespan > 0)

\* camera update (lines 253-258)
MaxY(rs) == Max(0, Max(rs[1].y, Max(rs[2].y, rs[3].y)))

NewCameraY(rs, currentCameraY) ==
  currentCameraY
    + RDiv((Max(VIEWPORT_HEIGHT \div 2, MaxY(rs)) - currentCameraY) * CAMERA_SMOOTHING, 100)

\* ------------------------------------------------------------------------
\* State
\* ------------------------------------------------------------------------
VARIABLES
  racers, walls, gameState, winner, particles, cameraY,  \* useRaceLogic state, as rendered
  queued,             \* the same six values after the queued setState calls
  dirty,              \* the state hooks set since the last render
  effects,            \* effects of the last render that have not run yet
  raceStateRef, prevWallsRef, animationFrameRef,          \* refs
  rafPending,         \* requestAnimationFrame callbacks not yet run
  timeouts,           \* pending setTimeout(startRace) callbacks
  buildTool, levelHeight,                                 \* App state
  drawingLine, hoveredWallIndex,                          \* RaceBoard state
  sounds,             \* playBounceSound / playBreakSound calls of the last step
  emitted,            \* walls that spawned particles since they were last not destroyed
  respawned,          \* walls the last step spawned particles for without a new destruction
  lastStep,           \* the step that led to this state
  stateBefore,        \* gameState before that step
  heldTicks,          \* frames run while a line is being drawn
  strayTicks          \* frames run since the last reset while the state shown is not racing

vars == <<racers, walls, gameState, winner, particles, cameraY, queued, dirty, effects,
          raceStateRef, prevWallsRef, animationFrameRef, rafPending, timeouts,
          buildTool, levelHeight, drawingLine, hoveredWallIndex,
          sounds, emitted, respawned, lastStep, stateBefore,
          heldTicks, strayTicks>>

Stale == -1

\* the current state as one record; sounds and respawned describe one step
W ==
  [racers |-> racers, walls |-> walls, gameState |-> gameState, winner |-> winner,
   particles |-> particles, cameraY |-> cameraY, queued |-> queued, dirty |-> dirty,
   effects |-> effects, raceStateRef |-> raceStateRef, prevWallsRef |-> prevWallsRef,
   animationFrameRef |-> animationFrameRef, rafPending |-> rafPending,
   timeouts |-> timeouts, buildTool |-> buildTool, levelHeight |-> levelHeight,
   drawingLine |-> drawingLine, hoveredWallIndex |-> hoveredWallIndex,
   sounds |-> {}, emitted |-> emitted, respawned |-> {}, heldTicks |-> heldTicks,
   strayTicks |-> strayTicks]

Becomes(w, step) ==
  /\ racers' = w.racers
  /\ walls' = w.walls
  /\ gameState' = w.gameState
  /\ winner' = w.winner
  /\ particles' = w.particles
  /\ cameraY' = w.cameraY
  /\ queued' = w.queued
  /\ dirty' = w.dirty
  /\ effects' = w.effects
  /\ raceStateRef' = w.raceStateRef
  /\ prevWallsRef' = w.prevWallsRef
  /\ animationFrameRef' = w.animationFrameRef
  /\ rafPending' = w.rafPending
  /\ timeouts' = w.timeouts
  /\ buildTool' = w.buildTool
  /\ levelHeight' = w.levelHeight
  /\ drawingLine' = w.drawingLine
  /\ hoveredWallIndex' = w.hoveredWallIndex
  /\ sounds' = w.sounds
  /\ emitted' = w.emitted
  /\ respawned' = w.respawned
  /\ lastStep' = step
  /\ stateBefore' = gameState
  /\ heldTicks' = IF w.drawingLine = Null THEN 0 ELSE w.heldTicks
  /\ strayTicks' = w.strayTicks

Snapshot(w) ==
  [racers |-> w.racers, walls |-> w.walls, gameState |-> w.gameState,
   winner |-> w.winner, particles |-> w.particles, cameraY |-> w.cameraY]

\* ------------------------------------------------------------------------
\* React: state setters, render, effects
\* ------------------------------------------------------------------------
setRacers(w, v) == [w EXCEPT !.queued.racers = v, !.dirty = @ \cup {"racers"}]
setWalls(w, v) == [w EXCEPT !.queued.walls = v, !.dirty = @ \cup {"walls"}]
setGameState(w, v) == [w EXCEPT !.queued.gameState = v, !.dirty = @ \cup {"gameState"}]
setWinner(w, v) == [w EXCEPT !.queued.winner = v, !.dirty = @ \cup {"winner"}]
setParticles(w, v) == [w EXCEPT !.queued.particles = v, !.dirty = @ \cup {"particles"}]
setCameraY(w, v) == [w EXCEPT !.queued.cameraY = v, !.dirty = @ \cup {"cameraY"}]

\* the render: the queued values become the rendered ones; an effect is due
\* when one of its dependencies changed (a set array is a new array)
Commit(w) ==
  [w EXCEPT !.racers = w.queued.racers,
            !.walls = w.queued.walls,
            !.gameState = w.queued.gameState,
            !.winner = w.queued.winner,
            !.particles = w.queued.particles,
            !.cameraY = w.queued.cameraY,
            !.dirty = {},
            !.effects = (IF w.dirty # {} THEN {"mirror"} ELSE {})
                          \cup (IF "walls" \in w.dirty \/ w.queued.gameState # w.gameState
                                THEN {"spawn"} ELSE {}),
            !.emitted = {i \in w.emitted :
                           i <= Len(w.queued.walls) /\ Count(w.queued.walls[i]) >= 2}]

\* effect of lines 71-73
MirrorEffect(w) == [w EXCEPT !.raceStateRef = Snapshot(w)]

\* Math.random() of the spawn effect: rnd = [count, seed]
DirX(a) == IF a = 0 THEN 1 ELSE IF a = 2 THEN -1 ELSE 0
DirY(a) == IF a = 1 THEN 1 ELSE IF a = 3 THEN -1 ELSE 0

Particle(wall, rnd, k) ==
  LET angle == (rnd.seed + k) % 4
      speed == 100 + ((rnd.seed * 3 + k * 37) % 200)
      lifespan == MIN_LIFESPAN + ((rnd.seed + 7 * k) % 20)
  IN  [x |-> (wall.x1 + wall.x2) * 50, y |-> (wall.y1 + wall.y2) * 50,
       vx |-> DirX(angle) * speed, vy |-> DirY(angle) * speed,
       lifespan |-> lifespan, maxLifespan |-> lifespan]

\* wall.touchCount === 2 && (!prevWall || prevWall.touchCount < 2)
JustDestroyed(wall, prev, index) ==
  /\ wall.touchCount = 2
  /\ \/ index > Len(prev)
     \/ prev[index].touchCount # NoCount /\ prev[index].touchCount < 2

RECURSIVE NewParticles(_, _, _, _)
NewParticles(ws, prev, rnd, index) ==
  IF index > Len(ws) THEN <<>>
  ELSE (IF JustDestroyed(ws[index], prev, index)
        THEN [k \in 1..rnd.count |-> Particle(ws[index], rnd, k)]
        ELSE <<>>) \o NewParticles(ws, prev, rnd, index + 1)

\* effect of lines 76-113
SpawnEffect(w, rnd) ==
  LET newParticles == NewParticles(w.walls, w.prevWallsRef, rnd, 1)
      spawning == {i \in 1..Len(w.walls) : JustDestroyed(w.walls[i], w.prevWallsRef, i)}
      appended == IF Len(newParticles) > 0
                  THEN setParticles(w, w.queued.particles \o newParticles)
                  ELSE w
  IN  IF w.gameState # "racing" THEN w
      ELSE [appended EXCEPT !.prevWallsRef = w.walls,
                            !.emitted = @ \cup spawning,
                            !.respawned = @ \cup (spawning \cap w.emitted)]

\* the effects not yet run, in the order the hook declares them
RunEffects(w, rnd) ==
  LET mirrored == IF "mirror" \in w.effects THEN MirrorEffect(w) ELSE w
      spawned == IF "spawn" \in w.effects THEN SpawnEffect(mirrored, rnd) ELSE mirrored
  IN  [spawned EXCEPT !.effects = {}]

\* a render; effects of the render before it run first
Render(w, rnd) == Commit(RunEffects(w, rnd))

\* the render of a discrete input event, with its effects
SyncRender(w, rnd) == RunEffects(Render(w, rnd), rnd)

\* ------------------------------------------------------------------------
\* Browser: animation frames
\* ------------------------------------------------------------------------
FreshFrame(w) == CHOOSE id \in 1..(Cardinality(w.rafPending) + 1) :
                   /\ id \notin w.rafPending
                   /\ \A j \in 1..(id - 1) : j \in w.rafPending

requestAnimationFrame(w) ==
  [w EXCEPT !.rafPending = @ \cup {FreshFrame(w)}, !.animationFrameRef = FreshFrame(w)]

\* if (animationFrameRef.current) cancelAnimationFrame(animationFrameRef.current)
cancelAnimationFrame(w) ==
  IF w.animationFrameRef = 0 THEN w
  ELSE [w EXCEPT !.rafPending = @ \ {w.animationFrameRef}, !.animationFrameRef = Stale]

\* the browser takes callback id off its list and calls it
FrameFires(w, id) ==
  [w EXCEPT !.rafPending = @ \ {id},
            !.animationFrameRef = IF @ = id THEN Stale ELSE @]

\* ------------------------------------------------------------------------
\* useRaceLogic: updateRace, startRace, resetRace, restartCurrentRace
\* ------------------------------------------------------------------------
\* lines 125-261, the frame step
FrameStep(w) ==
  LET ref == w.raceStateRef
      moved == MoveRacers([racers |-> <<>>, hits |-> <<>>, sounds |-> {}, winner |-> Null],
                          ref, w.levelHeight, 1)
      w1 == IF Len(ref.particles) > 0 THEN setParticles(w, UpdateParticles(ref.particles))
            ELSE w
      w2 == IF moved.winner # Null THEN setWinner(w1, moved.winner) ELSE w1
      w3 == IF DOMAIN moved.hits # {} THEN setWalls(w2, ApplyHits(w2.queued.walls, moved.hits))
            ELSE w2
      w4 == setCameraY(w3, NewCameraY(moved.racers, ref.cameraY))
      w5 == setRacers(w4, moved.racers)
  IN  requestAnimationFrame([w5 EXCEPT !.sounds = moved.sounds])

updateRaceUnguarded(w) == FrameStep(w)

updateRaceNeverFinishing(w) ==
  IF w.raceStateRef.winner # Null
  THEN cancelAnimationFrame(setWinner(w, w.raceStateRef.winner))
  ELSE FrameStep(w)

\* lines 116-262
updateRace(w) ==
  IF w.raceStateRef.winner # Null
  THEN cancelAnimationFrame(setGameState(w, "finished"))
  ELSE FrameStep(w)

startRaceNoFrame(w) ==
  IF w.raceStateRef.gameState = "idle" THEN setGameState(w, "racing") ELSE w

startRaceUnguarded(w) == requestAnimationFrame(setGameState(w, "racing"))

\* lines 264-269
startRace(w) ==
  IF w.raceStateRef.gameState = "idle"
  THEN requestAnimationFrame(setGameState(w, "racing"))
  ELSE w

resetRaceKeepingCamera(w, vxs) ==
  LET w1 == cancelAnimationFrame(w)
      w2 == setRacers(w1, createInitialRacers(vxs))
      w3 == setWinner(w2, Null)
      w4 == setParticles(w3, <<>>)
      w6 == [w4 EXCEPT !.prevWallsRef = <<>>, !.strayTicks = 0]
  IN  setWalls(w6, StripTouchCount(w6.queued.walls))

\* lines 271-282
resetRace(w, vxs) ==
  LET w1 == cancelAnimationFrame(w)
      w2 == setRacers(w1, createInitialRacers(vxs))
      w3 == setWinner(w2, Null)
      w4 == setParticles(w3, <<>>)
      w5 == setCameraY(w4, VIEWPORT_HEIGHT \div 2)
      w6 == [w5 EXCEPT !.prevWallsRef = <<>>, !.strayTicks = 0]
  IN  setWalls(w6, StripTouchCount(w6.queued.walls))

\* lines 284-298
restartCurrentRace(w, vxs) ==
  LET w1 == resetRace(w, vxs)
  IN  IF w1.raceStateRef.gameState = "racing" THEN requestAnimationFrame(w1) ELSE w1

\* ------------------------------------------------------------------------
\* App: controller commands and editor callbacks
\* ------------------------------------------------------------------------
\* prev.filter((_, i) => i !== index)
RemoveAt(ws, index) ==
  IF index \in DOMAIN ws
  THEN [i \in 1..(Len(ws) - 1) |-> IF i < index THEN ws[i] ELSE ws[i + 1]]
  ELSE ws

\* lines 120-122
handleAddWall(w, wall) == setWalls(w, Append(w.queued.walls, wall))

\* lines 124-126
handleDeleteWall(w, index) == setWalls(w, RemoveAt(w.queued.walls, index))

\* the conditions handleDeleteWall reports to its caller: it returns nothing
\* and throws nothing, whatever the index
handleDeleteWallReports(w, index) == {}

\* lines 128-137
handleRaceAgain(w, vxs) ==
  [setGameState(resetRace(w, vxs), "idle") EXCEPT !.timeouts = @ + 1]

\* lines 139-142
handleEditMaze(w, vxs) == setGameState(resetRace(w, vxs), "building")

\* lines 144-148
handleLockMaze(w) == setGameState(w, "idle")

\* lines 150-153
handleStartRace(w) == startRace(w)

\* lines 155-157
handleClearMaze(w) == setWalls(w, <<>>)

\* lines 159-162
handleRestartRace(w, vxs) == restartCurrentRace(w, vxs)

\* lines 44-118, newWalls being one sample of the random maze
handleGenerateRandomMaze(w, newWalls) == setWalls(w, newWalls)

\* ------------------------------------------------------------------------
\* RaceBoard: pointer handlers
\* ------------------------------------------------------------------------
isBuilding(w) == w.gameState = "building"

Offset(point, wall) ==
  [dx |-> point.x * 100 - ClosestPoint(point.x * 100, point.y * 100, wall).x,
   dy |-> point.y * 100 - ClosestPoint(point.x * 100, point.y * 100, wall).y]

DistSq(point, wall) ==
  Offset(point, wall).dx * Offset(point, wall).dx
    + Offset(point, wall).dy * Offset(point, wall).dy

\* lines 45-75: the first wall at the least distance, if that is below
\* ERASE_THRESHOLD; only walls below the threshold can be that wall
findClosestWall(w, point) ==
  LET near == {i \in 1..Len(w.walls) :
                 /\ Count(w.walls[i]) < 2
                 /\ LineLenSq(w.walls[i]) # 0
                 /\ WithinDistance(Offset(point, w.walls[i]).dx,
                                   Offset(point, w.walls[i]).dy, ERASE_THRESHOLD)}
  IN  IF near = {} THEN 0
      ELSE CHOOSE i \in near :
             \A j \in near : \/ DistSq(point, w.walls[i]) < DistSq(point, w.walls[j])
                             \/ DistSq(point, w.walls[i]) = DistSq(point, w.walls[j]) /\ i <= j

StartLine(w, point) ==
  [w EXCEPT !.drawingLine = Wall(point.x, point.y, point.x, point.y)]

ExtendLine(w, point) ==
  [w EXCEPT !.drawingLine = [@ EXCEPT !.x2 = point.x, !.y2 = point.y]]

\* lines 78-87
handleMouseDown(w, point) ==
  IF ~isBuilding(w) THEN w
  ELSE IF w.buildTool = "draw" THEN StartLine(w, point)
  ELSE IF w.buildTool = "erase" /\ w.hoveredWallIndex # 0
  THEN [handleDeleteWall(w, w.hoveredWallIndex) EXCEPT !.hoveredWallIndex = 0]
  ELSE w

\* lines 89-98
handleMouseMove(w, point) ==
  IF ~isBuilding(w) THEN w
  ELSE IF w.buildTool = "draw" /\ w.drawingLine # Null THEN ExtendLine(w, point)
  ELSE IF w.buildTool = "erase"
  THEN [w EXCEPT !.hoveredWallIndex = findClosestWall(w, point)]
  ELSE w

\* lines 100-107
handleMouseUp(w) ==
  IF w.buildTool = "draw" /\ w.drawingLine # Null
  THEN [(IF w.drawingLine.x1 # w.drawingLine.x2 \/ w.drawingLine.y1 # w.drawingLine.y2
         THEN handleAddWall(w, w.drawingLine) ELSE w)
        EXCEPT !.drawingLine = Null]
  ELSE w

\* lines 109-112
handleMouseLeave(w) == [handleMouseUp(w) EXCEPT !.hoveredWallIndex = 0]

\* lines 115-130
handleTouchStart(w, point) ==
  IF ~isBuilding(w) THEN w
  ELSE IF w.buildTool = "draw" THEN StartLine(w, point)
  ELSE IF w.buildTool = "erase" /\ findClosestWall(w, point) # 0
  THEN handleDeleteWall(w, findClosestWall(w, point))
  ELSE w

\* lines 132-139
handleTouchMove(w, point) ==
  IF ~isBuilding(w) \/ w.drawingLine = Null THEN w
  ELSE IF w.buildTool = "draw" THEN ExtendLine(w, point)
  ELSE w

\* lines 141-148
handleTouchEnd(w) ==
  IF w.buildTool = "draw" /\ w.drawingLine # Null
  THEN [(IF w.drawingLine.x1 # w.drawingLine.x2 \/ w.drawingLine.y1 # w.drawingLine.y2
         THEN handleAddWall(w, w.drawingLine) ELSE w)
        EXCEPT !.drawingLine = Null]
  ELSE w

\* ------------------------------------------------------------------------
\* Initial state: the first render of App, RaceBoard and useRaceLogic
\* ------------------------------------------------------------------------
InitialSnapshot(vxs) ==
  [racers |-> createInitialRacers(vxs), walls |-> <<>>, gameState |-> "building",
   winner |-> Null, particles |-> <<>>, cameraY |-> VIEWPORT_HEIGHT \div 2]

Init ==
  \E vxs \in VxSamples :
    /\ racers = createInitialRacers(vxs)
    /\ walls = <<>>
    /\ gameState = "building"
    /\ winner = Null
    /\ particles = <<>>
    /\ cameraY = VIEWPORT_HEIGHT \div 2
    /\ queued = InitialSnapshot(vxs)
    /\ dirty = {}
    /\ effects = {}
    /\ raceStateRef = InitialSnapshot(vxs)
    /\ prevWallsRef = <<>>
    /\ animationFrameRef = 0
    /\ rafPending = {}
    /\ timeouts = 0
    /\ buildTool = "draw"
    /\ levelHeight = DEFAULT_LEVEL_HEIGHT
    /\ drawingLine = Null
    /\ hoveredWallIndex = 0
    /\ sounds = {}
    /\ emitted = {}
    /\ respawned = {}
    /\ lastStep = "Init"
    /\ stateBefore = "building"
    /\ heldTicks = 0
    /\ strayTicks = 0

\* ------------------------------------------------------------------------
\* Steps
\* ------------------------------------------------------------------------
\* the random samples that can matter to a step: particles are only spawned
\* for a wall whose counter is 2
RndsFor(w) ==
  IF \/ \E i \in DOMAIN w.walls : w.walls[i].touchCount = 2
     \/ \E i \in DOMAIN w.queued.walls : w.queued.walls[i].touchCount = 2
  THEN Rnds
  ELSE {CHOOSE r \in Rnds : TRUE}

\* an input event whose handler set some state: handler, render, effects
Input(w, step) ==
  /\ Len(w.queued.walls) <= MaxWalls
  /\ Cardinality(w.rafPending) <= MaxFrames
  /\ \E rnd \in RndsFor(w) : Becomes(SyncRender(w, rnd), step)

\* a click on the footer or the modal: a mouse pointer has left the board
\* (handleMouseLeave), so no wall is hovered
OffBoard == hoveredWallIndex = 0

\* footer, building
SetBuildTool ==
  /\ OffBoard
  /\ gameState = "building"
  /\ \E tool \in {"draw", "erase"} \ {buildTool} : Input([W EXCEPT !.buildTool = tool], "SetBuildTool")

GenerateRandomMaze ==
  /\ OffBoard
  /\ gameState = "building"
  /\ \E newWalls \in GeneratedMazes : Input(handleGenerateRandomMaze(W, newWalls), "GenerateRandomMaze")

ClearMaze ==
  /\ OffBoard
  /\ gameState = "building"
  /\ Len(walls) > 0
  /\ Input(handleClearMaze(W), "ClearMaze")

LockMaze ==
  /\ OffBoard
  /\ gameState = "building"
  /\ Input(handleLockMaze(W), "LockMaze")

\* footer, idle
StartRace ==
  /\ OffBoard
  /\ gameState = "idle"
  /\ Input(handleStartRace(W), "StartRace")

\* footer, idle; winner modal
EditMaze ==
  /\ OffBoard
  /\ gameState = "idle" \/ (gameState = "finished" /\ winner # Null)
  /\ \E vxs \in VxSamples : Input(handleEditMaze(W, vxs), "EditMaze")

\* footer, racing
RestartRace ==
  /\ OffBoard
  /\ gameState = "racing"
  /\ \E vxs \in VxSamples : Input(handleRestartRace(W, vxs), "RestartRace")

\* winner modal
RaceAgain ==
  /\ OffBoard
  /\ gameState = "finished" /\ winner # Null
  /\ \E vxs \in VxSamples : Input(handleRaceAgain(W, vxs), "RaceAgain")

\* the setTimeout callback of handleRaceAgain
RaceAgainTimeout ==
  /\ timeouts > 0
  /\ Cardinality(rafPending) < MaxFrames
  /\ Becomes(startRace([W EXCEPT !.timeouts = @ - 1]), "RaceAgainTimeout")

\* board events; an event whose handler changes nothing is left out
Changed(w) == w # W

MouseDown ==
  \E point \in DownPoints : Changed(handleMouseDown(W, point)) /\ Input(handleMouseDown(W, point), "MouseDown")

MouseMove ==
  \E point \in Points : Changed(handleMouseMove(W, point)) /\ Input(handleMouseMove(W, point), "MouseMove")

MouseUp == Changed(handleMouseUp(W)) /\ Input(handleMouseUp(W), "MouseUp")

MouseLeave == Changed(handleMouseLeave(W)) /\ Input(handleMouseLeave(W), "MouseLeave")

TouchStart ==
  \E point \in DownPoints : Changed(handleTouchStart(W, point)) /\ Input(handleTouchStart(W, point), "TouchStart")

TouchMove ==
  \E point \in Points : Changed(handleTouchMove(W, point)) /\ Input(handleTouchMove(W, point), "TouchMove")

TouchEnd == Changed(handleTouchEnd(W)) /\ Input(handleTouchEnd(W), "TouchEnd")

\* an animation frame: the browser calls updateRace.  A zero-delay timeout
\* is delivered before the next frame.
Tick ==
  /\ timeouts = 0
  /\ drawingLine # Null => heldTicks < MaxHeldTicks
  /\ gameState # "racing" => strayTicks < MaxStrayTicks
  /\ \E id \in rafPending :
       Becomes([updateRace(FrameFires(W, id)) EXCEPT
                  !.heldTicks = IF drawingLine # Null THEN @ + 1 ELSE @,
                  !.strayTicks = IF gameState # "racing" THEN @ + 1 ELSE @],
               "Tick")

\* React renders the updates queued by a frame or a timeout
RenderStep ==
  /\ dirty # {}
  /\ \E rnd \in RndsFor(W) : Becomes(Render(W, rnd), "RenderStep")

\* React runs the effects of such a render
EffectsStep ==
  /\ effects # {}
  /\ \E rnd \in RndsFor(W) : Becomes(RunEffects(W, rnd), "EffectsStep")

Next ==
  \/ SetBuildTool \/ GenerateRandomMaze \/ ClearMaze \/ LockMaze
  \/ StartRace \/ EditMaze \/ RestartRace \/ RaceAgain \/ RaceAgainTimeout
  \/ MouseDown \/ MouseMove \/ MouseUp \/ MouseLeave
  \/ TouchStart \/ TouchMove \/ TouchEnd
  \/ Tick \/ RenderStep \/ EffectsStep

Spec == Init /\ [][Next]_vars

\* ------------------------------------------------------------------------
\* Races on given courses.  A course is a wall list and a level height
\* (the slider goes from 400 to 1600); the walls are lines drawn on the
\* board, or a list handed to the hook through setWalls.  The race starts
\* from the state the Race Mode and Start Race clicks leave.
\* ------------------------------------------------------------------------
Courses ==
  { [walls |-> <<>>, levelHeight |-> 1600],
    [walls |-> << Wall(35, 490, 5, 590) >>, levelHeight |-> 800],
    [walls |-> << Wall(225, 60, 225, 60), Wall(60, 300, 240, 300) >>, levelHeight |-> 800],
    [walls |-> << Wall(60, 305, 240, 305), Wall(60, 300, 240, 300) >>, levelHeight |-> 400] }

\* the first render, with the walls and the height of the course
Built(course, vxs) ==
  [racers |-> createInitialRacers(vxs), walls |-> course.walls, gameState |-> "building",
   winner |-> Null, particles |-> <<>>, cameraY |-> VIEWPORT_HEIGHT \div 2,
   queued |-> [InitialSnapshot(vxs) EXCEPT !.walls = course.walls],
   dirty |-> {}, effects |-> {},
   raceStateRef |-> [InitialSnapshot(vxs) EXCEPT !.walls = course.walls],
   prevWallsRef |-> <<>>, animationFrameRef |-> 0, rafPending |-> {},
   timeouts |-> 0, buildTool |-> "draw", levelHeight |-> course.levelHeight,
   drawingLine |-> Null, hoveredWallIndex |-> 0,
   sounds |-> {}, emitted |-> {}, respawned |-> {}, heldTicks |-> 0, strayTicks |-> 0]

Started(course, vxs) ==
  LET rnd == CHOOSE r \in Rnds : TRUE
      locked == SyncRender(handleLockMaze(Built(course, vxs)), rnd)
  IN  SyncRender(handleStartRace(locked), rnd)

RaceInit ==
  \E course \in Courses, vxs \in VxSamples :
    LET w == Started(course, vxs)
    IN  /\ racers = w.racers
        /\ walls = w.walls
        /\ gameState = w.gameState
        /\ winner = w.winner
        /\ particles = w.particles
        /\ cameraY = w.cameraY
        /\ queued = w.queued
        /\ dirty = w.dirty
        /\ effects = w.effects
        /\ raceStateRef = w.raceStateRef
        /\ prevWallsRef = w.prevWallsRef
        /\ animationFrameRef = w.animationFrameRef
        /\ rafPending = w.rafPending
        /\ timeouts = w.timeouts
        /\ buildTool = w.buildTool
        /\ levelHeight = w.levelHeight
        /\ drawingLine = w.drawingLine
        /\ hoveredWallIndex = w.hoveredWallIndex
        /\ sounds = w.sounds
        /\ emitted = w.emitted
        /\ respawned = w.respawned
        /\ lastStep = "StartRace"
        /\ stateBefore = "idle"
        /\ heldTicks = w.heldTicks
        /\ strayTicks = w.strayTicks

RaceNext == Tick \/ RenderStep \/ EffectsStep \/ RestartRace

RaceSpec == RaceInit /\ [][RaceNext]_vars

\* ------------------------------------------------------------------------
\* A race left to run: no command is issued.  The browser calls every
\* frame callback that stays requested, React renders every queued update
\* and runs the effects of every render.  Each step leaves its name in
\* lastStep, and the fairness is stated on that mark: a frame that is due
\* after a step other than a tick is eventually called, and likewise the
\* render and the effects.  (TickDue is the guard of Tick; a Tick taken
\* after another step changes lastStep, so WF_vars(Tick) implies
\* WF_lastStep(TickTaken).)
\* ------------------------------------------------------------------------
RunNext == Tick \/ RenderStep \/ EffectsStep

TickDue ==
  /\ timeouts = 0
  /\ drawingLine # Null => heldTicks < MaxHeldTicks
  /\ gameState # "racing" => strayTicks < MaxStrayTicks
  /\ rafPending # {}

TickTaken == TickDue /\ lastStep' = "Tick"

RenderTaken == dirty # {} /\ lastStep' = "RenderStep"

EffectsTaken == effects # {} /\ lastStep' = "EffectsStep"

RunSpec ==
  /\ RaceInit
  /\ [][RunNext]_vars
  /\ WF_lastStep(TickTaken)
  /\ WF_lastStep(RenderTaken)
  /\ WF_lastStep(EffectsTaken)

\* ------------------------------------------------------------------------
\* Properties
\* ------------------------------------------------------------------------
\* the controller commands that run resetRace or restartCurrentRace
ResetOperation == EditMaze \/ RaceAgain \/ RestartRace

CountersAbsent(ws) == \A i \in DOMAIN ws : ws[i].touchCount = NoCount

SameWall(a, b) == [a EXCEPT !.touchCount = NoCount] = [b EXCEPT !.touchCount = NoCount]

\* a wall that stays in its place has a lower counter after the step
Lowered(before, after) ==
  \E i \in DOMAIN before \cap DOMAIN after :
    SameWall(before[i], after[i]) /\ Count(after[i]) < Count(before[i])

\* the step is a tick that ran the frame step: only the frame step leaves
\* animationFrameRef naming a pending frame
FrameStepRan == Tick /\ animationFrameRef' \in rafPending'

\* racers past the finish after the step
Crossing == {i \in DOMAIN queued'.racers : queued'.racers[i].y > levelHeight * 100}

\* a tick that finds no winner recorded and moves a racer past the finish
FirstWinner ==
  /\ Tick
  /\ raceStateRef.winner = Null
  /\ queued.winner = Null
  /\ Crossing # {}

AtStart(rs) ==
  /\ Len(rs) = 3
  /\ rs[1].x = 11250 /\ rs[2].x = 22500 /\ rs[3].x = 33750
  /\ \A i \in 1..3 : rs[i].y = 3000 /\ rs[i].vy = 0

CleanRaceData(q) ==
  /\ AtStart(q.racers)
  /\ q.particles = <<>>
  /\ q.cameraY = 40000
  /\ q.winner = Null
  /\ CountersAbsent(q.walls)

\* C1: no step lowers the hit counter of a wall, in the hook's state or in
\* the rendered one, except editCourse, raceAgain and restartRace (resetRace,
\* restartCurrentRace), and after these every wall's counter is absent; so
\* no tick lowers a counter.
C1_HitCounterMonotone ==
  [][ /\ Lowered(queued.walls, queued'.walls)
           => (ResetOperation /\ CountersAbsent(queued'.walls))
      /\ Lowered(walls, walls')
           => (ResetOperation /\ CountersAbsent(walls')) ]_vars

\* a tick has just raised a wall's counter from 1 to 2
C1_Witness ==
  /\ lastStep = "Tick"
  /\ \E i \in DOMAIN walls :
       i \in DOMAIN queued.walls /\ walls[i].touchCount = 1 /\ queued.walls[i].touchCount = 2

\* C2: particles are spawned for a wall once, when its counter becomes 2,
\* and not again while the wall stays destroyed: no step spawns particles for
\* a wall that has spawned them since it was last not destroyed.
C2_EmissionOnce == respawned = {}

\* C3: once a winner is recorded (setWinner has been called and no reset has
\* cleared it), a tick leaves the winner as it is and does not run the frame
\* step.
C3_WinnerIdempotent ==
  [][ (Tick /\ queued.winner # Null)
        => (queued'.winner = queued.winner /\ ~FrameStepRan) ]_vars

\* C4 (as the code has it): the tick that first moves a racer past the finish
\* records a racer that is past the finish as the winner, leaves the
\* controller state as it is and schedules the next tick; a tick that reads a
\* recorded winner sets the state to Finished, leaves the winner and
\* schedules nothing.
C4_WinnerThenFinished ==
  [][ /\ FirstWinner
           => /\ queued'.winner # Null
              /\ \E i \in Crossing : queued'.winner.id = queued'.racers[i].id
              /\ queued'.gameState = queued.gameState
              /\ animationFrameRef' \in rafPending'
      /\ (Tick /\ raceStateRef.winner # Null)
           => /\ queued'.gameState = "finished"
              /\ queued'.winner = queued.winner
              /\ animationFrameRef' \notin rafPending' ]_vars

\* the winner is recorded, the state is still Racing and the next tick is pending
C4_Witness ==
  /\ lastStep = "Tick"
  /\ winner = Null /\ queued.winner # Null
  /\ gameState = "racing" /\ queued.gameState = "racing"
  /\ animationFrameRef \in rafPending
  /\ \E i \in DOMAIN queued.racers :
       queued.racers[i].y > levelHeight * 100 /\ queued.racers[i].id = queued.winner.id

\* C4 as stated: at the end of the tick that first moves a racer past the
\* finish the state is Finished, that racer is the winner and no tick is
\* scheduled.
C4_FinishedAtCrossingTick ==
  [][ FirstWinner
        => /\ queued'.gameState = "finished"
           /\ \E i \in Crossing : queued'.winner # Null /\ queued'.winner.id = queued'.racers[i].id
           /\ rafPending' = {} ]_vars

\* C5: when several racers pass the finish on the tick that records the
\* winner, the winner is the first of them in iteration order.
C5_FirstInOrderWins ==
  [][ (FirstWinner /\ Cardinality(Crossing) >= 2)
        => \A i \in Crossing :
             (\A j \in Crossing : i <= j) => queued'.winner.id = RacerIds[i] ]_vars

\* C6: a tick keeps the wall list and raises each wall's counter by at most 1.
C6_OneHitPerWallPerTick ==
  [][ Tick => /\ Len(queued'.walls) = Len(queued.walls)
              /\ \A i \in DOMAIN queued.walls :
                   Count(queued'.walls[i]) <= Count(queued.walls[i]) + 1 ]_vars

\* circle and square have bounced off wall 1 in the same tick, which raised
\* its counter from absent to 1
C6_Witness ==
  /\ lastStep = "Tick"
  /\ Len(walls) = 1 /\ Len(queued.walls) = 1
  /\ walls[1].touchCount = NoCount /\ queued.walls[1].touchCount = 1
  /\ racers[1].vy > 0 /\ queued.racers[1].vy < 0
  /\ racers[2].vy > 0 /\ queued.racers[2].vy < 0

\* C7: the raceAgain click resets the race data and shows Idle with the
\* deferred startRace pending; the deferred startRace, run in Idle on the
\* reset data, sets Racing and schedules a tick, and leaves the data reset
\* (racers at the start, no particles, camera 400, no winner, counters absent).
C7_RaceAgainRestarts ==
  [][ /\ RaceAgain
           => /\ gameState' = "idle" /\ queued'.gameState = "idle"
              /\ timeouts' = timeouts + 1
              /\ CleanRaceData(queued') /\ CleanRaceData(Snapshot(W)')
      /\ (RaceAgainTimeout /\ gameState = "idle" /\ CleanRaceData(queued))
           => /\ queued'.gameState = "racing"
              /\ animationFrameRef' \in rafPending' \ rafPending
              /\ CleanRaceData(queued') ]_vars

\* the deferred startRace has run after a raceAgain
C7_Witness ==
  /\ lastStep = "RaceAgainTimeout"
  /\ stateBefore = "idle"
  /\ queued.gameState = "racing"
  /\ animationFrameRef \in rafPending
  /\ CleanRaceData(queued)

CodeTransitions ==
  { <<"building", "idle">>, <<"idle", "racing">>, <<"racing", "finished">>,
    <<"finished", "building">>, <<"finished", "idle">>, <<"idle", "building">> }

\* C9 (as the code has it): the state shown changes only from Building to
\* Idle, Idle to Racing, Racing to Finished, Finished to Building, Finished
\* to Idle, and Idle to Building: editCourse in Idle is no no-op, it enters
\* Building.
C9_Transitions ==
  [][ /\ gameState' # gameState => <<gameState, gameState'>> \in CodeTransitions
      /\ EditMaze => gameState' = "building" ]_vars

\* editCourse has been issued in Idle and the state is Building
C9_Witness ==
  /\ lastStep = "EditMaze"
  /\ stateBefore = "idle"
  /\ gameState = "building"

\* C9 as stated: the transitions are those of the list, and editCourse in
\* Idle changes nothing.
C9_ListedTransitions ==
  [][ gameState' # gameState
        => <<gameState, gameState'>> \in CodeTransitions \ { <<"idle", "building">> } ]_vars

\* C10: the number of walls changes only in steps taken in Building.
C10_WallsOnlyWhileBuilding ==
  [][ Len(queued'.walls) # Len(queued.walls) => gameState = "building" ]_vars

\* C11: removeWall(index) with an index outside the wall list reports an
\* InvalidIndex condition to the caller and leaves the wall list unchanged.
\* The editor calls it from the mouse-down of the erase tool with the
\* hovered index.
C11_InvalidIndexReported ==
  [][ (MouseDown /\ buildTool = "erase" /\ hoveredWallIndex # 0
         /\ hoveredWallIndex \notin DOMAIN queued.walls)
      => (/\ "InvalidIndex" \in handleDeleteWallReports(W, hoveredWallIndex)
          /\ queued'.walls = queued.walls) ]_vars

SpeedSq(r) == r.vx * r.vx + r.vy * r.vy

\* the speed is at most MAX_SPEED, up to the rounding of the last digit of
\* vx and vy
Capped(rs) ==
  \A i \in DOMAIN rs : SpeedSq(rs[i]) < (MAX_SPEED + 1) * (MAX_SPEED + 1)

\* C12: in every snapshot published by a tick or produced by a restart,
\* each racer's speed sqrt(vx^2 + vy^2) is at most MAX_SPEED.
C12_SpeedCapped ==
  Capped(queued.racers) /\ Capped(racers) /\ Capped(raceStateRef.racers)

\* a tick has capped a racer that gravity had taken past MAX_SPEED
C12_Witness ==
  /\ lastStep = "Tick"
  /\ \E i \in DOMAIN queued.racers :
       /\ raceStateRef.racers[i].vx * raceStateRef.racers[i].vx
            + (raceStateRef.racers[i].vy + GRAVITY) * (raceStateRef.racers[i].vy + GRAVITY)
              > MAX_SPEED * MAX_SPEED
       /\ queued.racers[i].y # raceStateRef.racers[i].y
       /\ Capped(queued.racers)

\* C13: a racer whose circle extends past the left course boundary before a
\* tick (x - radius < 0) has x - radius >= 0 in the snapshot the tick
\* publishes, after the edge step and all wall push-outs; symmetrically
\* x + radius <= LEVEL_WIDTH for the right boundary.
C13_BackInsideAfterTick ==
  [][ FrameStepRan =>
        \A i \in DOMAIN raceStateRef.racers :
          LET before == raceStateRef.racers[i]
              after == queued'.racers[i]
          IN  /\ before.x - before.radius < 0 => after.x - after.radius >= 0
              /\ before.x + before.radius > LEVEL_WIDTH
                   => after.x + after.radius <= LEVEL_WIDTH ]_vars

\* C14: no frame step executes while the controller state is Building, Idle
\* or Finished: a stop of the loop (finish, edit, restart) cancels every
\* scheduled tick.  The state counts as Racing from the call that sets it.
C14_FrameStepOnlyWhileRacing ==
  [][ FrameStepRan => (gameState = "racing" \/ queued.gameState = "racing") ]_vars

\* C15: in every reachable state, controller state Finished implies that a
\* winner is recorded.
C15_FinishedHasWinner == gameState = "finished" => winner # Null

\* the racers a frame step computes from snapshot ref
Moved(ref) ==
  MoveRacers([racers |-> <<>>, hits |-> <<>>, sounds |-> {}, winner |-> Null],
             ref, levelHeight, 1).racers

\* C16: a wall whose hit counter is 2 or more at the start of a tick is
\* inert in that tick: the racers move as they would without it, it emits
\* no bounce or break event, its counter is not changed, and it stays in
\* the wall list.
C16_DestroyedWallInert ==
  [][ FrameStepRan =>
        /\ Len(queued'.walls) = Len(queued.walls)
        /\ \A i \in DOMAIN walls \cap DOMAIN queued.walls \cap DOMAIN raceStateRef.walls :
             (Count(walls[i]) >= 2 /\ Count(queued.walls[i]) >= 2)
               => /\ queued'.walls[i] = queued.walls[i]
                  /\ \A e \in sounds' : e.wall # i
                  /\ queued'.racers
                       = Moved([raceStateRef EXCEPT !.walls[i].touchCount = 2]) ]_vars

\* C17: every tick computes from the snapshot most recently written: at
\* tick entry the racers, walls, particles, camera and winner read through
\* raceStateRef equal the current state, never an older one.
C17_TickReadsLatest ==
  [][ Tick => /\ raceStateRef.racers = queued.racers
              /\ raceStateRef.walls = queued.walls
              /\ raceStateRef.particles = queued.particles
              /\ raceStateRef.cameraY = queued.cameraY
              /\ raceStateRef.winner = queued.winner ]_vars

\* the walls of after are those of before, in the same order, with the
\* same endpoints and style tag
SameGeometry(before, after) ==
  /\ Len(after) = Len(before)
  /\ \A i \in DOMAIN before : SameWall(before[i], after[i])

ZeroLength(wall) == wall.x1 = wall.x2 /\ wall.y1 = wall.y2

\* C19: a zero-length wall is skipped by the collision resolution: in every
\* tick its hit counter is not changed, it emits no event and the racers
\* move as they would without it, wherever the racers are.
C19_ZeroLengthWallSkipped ==
  [][ FrameStepRan =>
        \A i \in DOMAIN raceStateRef.walls \cap DOMAIN queued.walls :
          ZeroLength(raceStateRef.walls[i])
            => /\ queued'.walls[i] = queued.walls[i]
               /\ \A e \in sounds' : e.wall # i
               /\ queued'.racers
                    = Moved([raceStateRef EXCEPT !.walls[i].touchCount = 2]) ]_vars

\* a tick has moved a racer whose circle covers a zero-length wall
C19_Witness ==
  /\ lastStep = "Tick"
  /\ \E i \in DOMAIN queued.walls, j \in DOMAIN queued.racers :
       /\ ZeroLength(queued.walls[i])
       /\ queued.walls[i].touchCount = NoCount
       /\ queued.racers[j].y > raceStateRef.racers[j].y
       /\ WithinDistance(queued.racers[j].x - queued.walls[i].x1 * 100,
                          queued.racers[j].y - queued.walls[i].y1 * 100,
                          queued.racers[j].radius)

\* C20: each executed tick decreases every live particle's remaining
\* lifespan by exactly 1 and removes the particles whose lifespan is then 0
\* or less, so every particle a tick publishes has 0 < lifespan <=
\* maxLifespan.  The live particles are those of the state when no write
\* to the particle list is waiting for its render.
C20_ParticleDecay ==
  [][ (FrameStepRan /\ particles = queued.particles)
        => /\ queued'.particles = UpdateParticles(particles)
           /\ \A k \in DOMAIN queued'.particles :
                /\ 0 < queued'.particles[k].lifespan
                /\ queued'.particles[k].lifespan <= queued'.particles[k].maxLifespan ]_vars

\* the racer as the wall loop receives it: gravity, position update, edges
AtWalls(racer) ==
  CollideEdges([x |-> racer.x + racer.vx, y |-> racer.y + racer.vy + GRAVITY,
                vx |-> racer.vx, vy |-> racer.vy + GRAVITY,
                hits |-> <<>>, sounds |-> {}],
               racer.radius)

\* the racer as wall k of ws receives it
BeforeWall(racer, ws, k) == CollideWalls(AtWalls(racer), SubSeq(ws, 1, k - 1), 1, racer.radius)

\* racer state s overlaps wall, live and of positive length, at a distance
\* that is not zero
Overlapping(s, wall, radius) ==
  LET closest == ClosestPoint(s.x, s.y, wall)
      dx == s.x - closest.x
      dy == s.y - closest.y
  IN  /\ Count(wall) < 2
      /\ ~ZeroLength(wall)
      /\ WithinDistance(dx, dy, radius)
      /\ dx * dx + dy * dy > 0

\* v . d for d = (dx, dy), the offset from the closest point to the centre
Along(vx, vy, dx, dy) == vx * dx + vy * dy

\* the component of v across d, times the length of d
Across(vx, vy, dx, dy) == vx * dy - vy * dx

\* out is s after the response of C21 to the wall; velocities are compared
\* up to 3 steps of the 1/100 grid, positions up to 2
Responded(s, out, wall, k, radius) ==
  LET closest == ClosestPoint(s.x, s.y, wall)
      dx == s.x - closest.x
      dy == s.y - closest.y
      ox == out.x - closest.x
      oy == out.y - closest.y
      size == Abs(dx) + Abs(dy)
  IN  /\ k \in DOMAIN out.hits /\ out.hits[k] = Count(wall) + 1
      /\ ox * ox + oy * oy >= (radius - 2) * (radius - 2)
      /\ ox * ox + oy * oy <= (radius + 3) * (radius + 3)
      /\ Abs(Across(ox, oy, dx, dy)) <= 2 * size
      /\ Along(ox, oy, dx, dy) > 0
      /\ IF Along(s.vx, s.vy, dx, dy) < 0
         THEN /\ Abs(100 * Along(out.vx, out.vy, dx, dy)
                       + RESTITUTION * Along(s.vx, s.vy, dx, dy)) <= 300 * size
              /\ Abs(Across(out.vx, out.vy, dx, dy) - Across(s.vx, s.vy, dx, dy)) <= 3 * size
         ELSE out.vx = s.vx /\ out.vy = s.vy

\* C21: a racer that overlaps a live wall of positive length at a distance
\* other than zero, n being the unit normal from the closest point to the
\* centre: if v.n < 0 the new velocity is v - (1 + 0.70)(v.n)n, that is, the
\* normal component is reversed and scaled by 0.70 and the tangential one
\* is kept; if v.n >= 0 the velocity is kept.  In both cases the racer is
\* pushed out along n to the radius and the hit is recorded, and the tick
\* publishes the outcome.
C21_WallResponse ==
  [][ FrameStepRan =>
        \A i \in DOMAIN raceStateRef.racers, k \in DOMAIN raceStateRef.walls :
          LET racer == raceStateRef.racers[i]
              ws == raceStateRef.walls
              s == BeforeWall(racer, ws, k)
              out == CollideWall(s, ws[k], k, racer.radius)
              last == CapSpeed(CollideWalls(out, ws, k + 1, racer.radius))
          IN  Overlapping(s, ws[k], racer.radius)
                => /\ Responded(s, out, ws[k], k, racer.radius)
                   /\ queued'.racers[i].vx = last.vx /\ queued'.racers[i].vy = last.vy
                   /\ queued'.racers[i].x = last.x /\ queued'.racers[i].y = last.y
                   /\ k \in DOMAIN queued'.walls
                   /\ queued'.walls[k].touchCount = Count(ws[k]) + 1 ]_vars

\* a tick in which a racer met one wall moving into it and then another
\* wall moving away from it
C21_Witness ==
  /\ lastStep = "Tick"
  /\ animationFrameRef \in rafPending
  /\ \E i \in DOMAIN raceStateRef.racers, k \in DOMAIN raceStateRef.walls, m \in DOMAIN raceStateRef.walls :
       LET racer == raceStateRef.racers[i]
           ws == raceStateRef.walls
           s == BeforeWall(racer, ws, k)
           t == BeforeWall(racer, ws, m)
           sc == ClosestPoint(s.x, s.y, ws[k])
           tc == ClosestPoint(t.x, t.y, ws[m])
       IN  /\ Overlapping(s, ws[k], racer.radius)
           /\ Along(s.vx, s.vy, s.x - sc.x, s.y - sc.y) < 0
           /\ Overlapping(t, ws[m], racer.radius)
           /\ Along(t.vx, t.vy, t.x - tc.x, t.y - tc.y) >= 0
           /\ queued.racers[i].vy < 0
           /\ queued.walls[k].touchCount = Count(ws[k]) + 1
           /\ queued.walls[m].touchCount = Count(ws[m]) + 1

CounterInRange(ws) == \A i \in DOMAIN ws : ws[i].touchCount \in {NoCount, 1, 2}

\* no wall that stays in its place goes from no hit to two hits
NoJumpToTwo(before, after) ==
  \A i \in DOMAIN before \cap DOMAIN after :
    (SameWall(before[i], after[i]) /\ Count(before[i]) = 0) => Count(after[i]) <= 1

\* every wall shown destroyed during the race has had its particles, once
\* the effects of the render have run
DestructionsSeen ==
  (gameState = "racing" /\ effects = {})
    => \A i \in DOMAIN walls : walls[i].touchCount = 2 => i \in emitted

\* C22: in every reachable state every wall's hit counter is absent, 1 or
\* 2; no state update takes a counter from absent or 0 to 2, neither in the
\* hook's state nor in the rendered one; so the spawn effect's test
\* (touchCount === 2, previous counter < 2) sees every destruction.
C22_CounterRange ==
  /\ [](CounterInRange(walls) /\ CounterInRange(queued.walls)
          /\ CounterInRange(raceStateRef.walls) /\ CounterInRange(prevWallsRef))
  /\ [][NoJumpToTwo(queued.walls, queued'.walls) /\ NoJumpToTwo(walls, walls')]_vars
  /\ []DestructionsSeen

\* the render of a second hit: the wall is shown destroyed and the spawn
\* effect, which had seen it with counter 1, has spawned its particles
C22_Witness ==
  /\ gameState = "racing"
  /\ effects = {}
  /\ \E i \in DOMAIN walls :
       /\ walls[i].touchCount = 2
       /\ i \in DOMAIN prevWallsRef /\ prevWallsRef[i].touchCount = 2
       /\ i \in emitted
  /\ Len(particles) > 0

\* C23: at most one tick is pending at any time and animationFrameRef names
\* it, so that a cancel reaches it: no sequence of startRace, raceAgain with
\* its deferred startRace, restartCurrentRace, resetRace and ticks leaves
\* two update loops running.
C23_OneTickPending ==
  /\ Cardinality(rafPending) <= 1
  /\ rafPending # {} => animationFrameRef \in rafPending

\* the race data of snapshot q is clean
Clean(q) ==
  /\ q.winner = Null
  /\ q.particles = <<>>
  /\ q.cameraY = VIEWPORT_HEIGHT \div 2
  /\ CountersAbsent(q.walls)
  /\ \A i \in DOMAIN q.racers : q.racers[i].y = START_Y /\ q.racers[i].vy = 0

C25_RaceTerminates ==
  (gameState = "racing") ~> (gameState = "finished" /\ winner # Null /\ rafPending = {})

\* the race on a course with walls has ended: a racer is past the finish,
\* is the winner, a wall has been destroyed on the way and the loop has stopped
C25_Witness ==
  /\ gameState = "finished"
  /\ winner # Null
  /\ rafPending = {}
  /\ dirty = {}
  /\ \E i \in DOMAIN racers : racers[i].id = winner.id /\ racers[i].y > levelHeight * 100
  /\ \E i \in DOMAIN walls : walls[i].touchCount = 2

=============================================================================
